---- MODULE Spec2Model ----
(***************************************************************************)
(* Identity reconciliation service (src/src/identityService.ts).           *)
(* The "Contact" table is a set of rows. Under serial execution one action *)
(* runs a whole identifyContact call as one transaction; every storage     *)
(* operation of it may fail. The route handler POST /identify              *)
(* (src/unnamed/part_001) wraps such a call. Under concurrent execution    *)
(* two calls run statement by statement, each statement reading the rows   *)
(* committed when it starts (read committed) and each UPDATE waiting for   *)
(* the row locks of the other transaction.                                 *)
(***************************************************************************)
EXTENDS Integers, Sequences, FiniteSets, TLC

\* ------------------------------------------------------------------ bounds
MaxContacts == 3      \* ids handed out by the table's id sequence
MaxClock == 1         \* largest value of the database clock
MaxTombstones == 1    \* rows soft-deleted from outside
TicksPerMs == 1       \* database clock ticks per JavaScript millisecond
MaxPrefixCalls == 3   \* serial calls made before two transactions overlap

\* ------------------------------------------------------------- vocabulary
WS == " "
EmailChars == {"a"}
PhoneChars == {"1", "2"}

\* A nullable value is a sequence of length at most one: Null, or <<v>>.
Null == <<>>
\* linkedId IS NULL (ids start at 1)
NoLink == 0

\* Request strings: the email is absent or the padded " a "; the phone number
\* is the blank " ", the plain "1" or the padded " 2 ".
RawEmails == {Null} \cup { << <<WS, c, WS>> >> : c \in EmailChars }
RawPhones ==
  { << <<WS>> >>, << <<"1">> >> } \cup { << <<WS, c, WS>> >> : c \in PhoneChars \ {"1"} }

\* Fields of a POST /identify body: as above, and the blank email " " and
\* the empty phone number "".
HttpEmails == RawEmails \cup {<< <<WS>> >>}
HttpPhones == RawPhones \cup {<< <<>> >>}

VARIABLES
  contacts,   \* committed rows of the "Contact" table
  nextId,     \* next value of the id sequence
  clock,      \* database clock: NOW() of the latest transaction
  inUse,      \* pool connections checked out and not released
  last,       \* what the latest call did and returned
  http,       \* body and response status of the latest POST /identify
  txs         \* the two transactions that overlap: position and locals

vars == <<contacts, nextId, clock, inUse, last, http, txs>>

\* ---------------------------------------------------------- pure helpers
RECURSIVE TrimStart(_)
TrimStart(s) == IF s # <<>> /\ Head(s) = WS THEN TrimStart(Tail(s)) ELSE s

RECURSIVE TrimEnd(_)
TrimEnd(s) ==
  IF s # <<>> /\ s[Len(s)] = WS THEN TrimEnd(SubSeq(s, 1, Len(s) - 1)) ELSE s

\* String.prototype.trim
Trim(s) == TrimEnd(TrimStart(s))

\* body.email?.trim() || null
Normalize(raw) ==
  IF raw = Null THEN Null
  ELSE LET t == Trim(raw[1]) IN IF t = <<>> THEN Null ELSE <<t>>

\* new Date(createdAt).getTime(): a Date holds milliseconds
getTime(t) == t \div TicksPerMs

Live(store) == {c \in store : c.deletedAt = Null}

\* The row sequences a query with ORDER BY "createdAt" ASC may return for the
\* row set rows: rows of equal createdAt come in any order.
RECURSIVE OrderByCreatedAt(_)
OrderByCreatedAt(rows) ==
  IF rows = {} THEN {<<>>}
  ELSE LET first == {c \in rows : \A d \in rows : c.createdAt <= d.createdAt}
       IN UNION {{<<c>> \o rest : rest \in OrderByCreatedAt(rows \ {c})} : c \in first}

\* Array.prototype.sort by getTime(createdAt): a stable insertion
RECURSIVE InsertSorted(_, _)
InsertSorted(sorted, c) ==
  IF sorted = <<>> THEN <<c>>
  ELSE IF getTime(sorted[Len(sorted)].createdAt) - getTime(c.createdAt) > 0
       THEN InsertSorted(SubSeq(sorted, 1, Len(sorted) - 1), c)
              \o <<sorted[Len(sorted)]>>
       ELSE sorted \o <<c>>

\* the sort with the comparator's operands exchanged (newest first)
RECURSIVE SortPrimaries_Desc(_)
SortPrimaries_Desc(ps) ==
  IF Len(ps) <= 1 THEN ps
  ELSE LET rest == SortPrimaries_Desc(Tail(ps))
           newer == {i \in 1..Len(rest) :
                      getTime(rest[i].createdAt) > getTime(Head(ps).createdAt)}
       IN SubSeq(rest, 1, Cardinality(newer)) \o <<Head(ps)>>
            \o SubSeq(rest, Cardinality(newer) + 1, Len(rest))

RECURSIVE SortPrimaries(_)
SortPrimaries(ps) ==
  IF ps = <<>> THEN <<>>
  ELSE InsertSorted(SortPrimaries(SubSeq(ps, 1, Len(ps) - 1)), ps[Len(ps)])

IsPrimary(c) == c.linkPrecedence = "primary"

\* ------------------------------------------------------ storage operations
\* findMatchingContacts without AND "deletedAt" IS NULL
findMatchingContacts_All(store, email, phoneNumber) ==
  IF email = Null /\ phoneNumber = Null THEN {<<>>}
  ELSE OrderByCreatedAt(
         {c \in store :
            \/ email # Null /\ c.email = email
            \/ phoneNumber # Null /\ c.phoneNumber = phoneNumber})

\* findMatchingContacts with AND between the two predicates
findMatchingContacts_Both(store, email, phoneNumber) ==
  IF email = Null /\ phoneNumber = Null THEN {<<>>}
  ELSE OrderByCreatedAt(
         {c \in Live(store) :
            /\ email = Null \/ c.email = email
            /\ phoneNumber = Null \/ c.phoneNumber = phoneNumber})

\* SELECT ... WHERE (email = $1 OR "phoneNumber" = $2) AND "deletedAt" IS NULL
\* ORDER BY "createdAt" ASC; a predicate is left out when its value is null.
findMatchingContacts(store, email, phoneNumber) ==
  IF email = Null /\ phoneNumber = Null THEN {<<>>}
  ELSE OrderByCreatedAt(
         {c \in Live(store) :
            \/ email # Null /\ c.email = email
            \/ phoneNumber # Null /\ c.phoneNumber = phoneNumber})

\* The ids fetchFullCluster collects from the rows it is given
PrimaryIdsOf(cs) ==
  {cs[i].id : i \in {j \in 1..Len(cs) : IsPrimary(cs[j])}}
    \cup {cs[i].linkedId :
            i \in {j \in 1..Len(cs) : ~IsPrimary(cs[j]) /\ cs[j].linkedId # NoLink}}

\* SELECT ... WHERE (id = ANY($1) OR "linkedId" = ANY($1)) AND "deletedAt" IS NULL
\* ORDER BY "createdAt" ASC
fetchFullCluster(store, cs) ==
  IF cs = <<>> THEN {<<>>}
  ELSE LET primaryIds == PrimaryIdsOf(cs)
       IN OrderByCreatedAt(
            {c \in Live(store) : c.id \in primaryIds \/ c.linkedId \in primaryIds})

NewRow(id, email, phoneNumber, linkedId, linkPrecedence, now) ==
  [id |-> id, email |-> email, phoneNumber |-> phoneNumber,
   linkedId |-> linkedId, linkPrecedence |-> linkPrecedence,
   createdAt |-> now, updatedAt |-> now, deletedAt |-> Null]

\* createPrimaryContact writing 'secondary' for the precedence
createPrimaryContact_Secondary(id, email, phoneNumber, now) ==
  NewRow(id, email, phoneNumber, NoLink, "secondary", now)

\* INSERT ... VALUES ($1, $2, NULL, 'primary', NOW(), NOW(), NULL) RETURNING *
createPrimaryContact(id, email, phoneNumber, now) ==
  NewRow(id, email, phoneNumber, NoLink, "primary", now)

\* createSecondaryContact passing no primaryId
createSecondaryContact_NoLink(id, email, phoneNumber, primaryId, now) ==
  NewRow(id, email, phoneNumber, NoLink, "secondary", now)

\* INSERT ... VALUES ($1, $2, $3, 'secondary', NOW(), NOW(), NULL) RETURNING *
createSecondaryContact(id, email, phoneNumber, primaryId, now) ==
  NewRow(id, email, phoneNumber, primaryId, "secondary", now)

\* demoteToSecondary with the SET of "linkedId" left out
demoteToSecondary_NoLink(store, contactId, newPrimaryId, now) ==
  {IF c.id = contactId
     THEN [c EXCEPT !.linkPrecedence = "secondary", !.updatedAt = now]
     ELSE c : c \in store}

\* demoteToSecondary with "createdAt" = NOW() added to the SET list
demoteToSecondary_Recreated(store, contactId, newPrimaryId, now) ==
  {IF c.id = contactId
     THEN [c EXCEPT !.linkPrecedence = "secondary", !.linkedId = newPrimaryId,
                    !.createdAt = now, !.updatedAt = now]
     ELSE c : c \in store}

\* UPDATE ... SET "linkPrecedence" = 'secondary', "linkedId" = $1,
\* "updatedAt" = NOW() WHERE id = $2
demoteToSecondary(store, contactId, newPrimaryId, now) ==
  {IF c.id = contactId
     THEN [c EXCEPT !.linkPrecedence = "secondary", !.linkedId = newPrimaryId,
                    !.updatedAt = now]
     ELSE c : c \in store}

\* reassignSecondaries updating no row
reassignSecondaries_None(store, oldPrimaryId, newPrimaryId, now) == store

\* UPDATE ... SET "linkedId" = $1, "updatedAt" = NOW()
\* WHERE "linkedId" = $2 AND "deletedAt" IS NULL
reassignSecondaries(store, oldPrimaryId, newPrimaryId, now) ==
  {IF c.linkedId = oldPrimaryId /\ c.deletedAt = Null
     THEN [c EXCEPT !.linkedId = newPrimaryId, !.updatedAt = now]
     ELSE c : c \in store}

\* The store after the first k storage operations of the loop over the
\* losers (reassignSecondaries, then demoteToSecondary, for each in turn).
RECURSIVE MergeSteps(_, _, _, _, _)
MergeSteps(store, losers, truePrimaryId, now, k) ==
  IF k = 0 \/ losers = <<>> THEN store
  ELSE LET loser == Head(losers)
           s1 == reassignSecondaries(store, loser.id, truePrimaryId, now)
       IN IF k = 1 THEN s1
          ELSE MergeSteps(demoteToSecondary(s1, loser.id, truePrimaryId, now),
                          Tail(losers), truePrimaryId, now, k - 2)

\* -------------------------------------------------------------- response
RECURSIVE AppendNew(_, _)
\* the values of vs, in order, each pushed unless null or already included
AppendNew(acc, vs) ==
  IF vs = <<>> THEN acc
  ELSE LET v == Head(vs)
       IN AppendNew(IF v # Null /\ \A i \in 1..Len(acc) : acc[i] # v[1]
                      THEN Append(acc, v[1]) ELSE acc,
                    Tail(vs))

Range(seq) == {seq[i] : i \in 1..Len(seq)}

Column(cs, f) == [i \in 1..Len(cs) |-> cs[i][f]]

NoResponse ==
  [primaryContatctId |-> NoLink, emails |-> <<>>, phoneNumbers |-> <<>>,
   secondaryContactIds |-> <<>>]

Reverse(seq) == [i \in 1..Len(seq) |-> seq[Len(seq) + 1 - i]]

\* buildResponse walking the secondaries from the last to the first
buildResponse_Reversed(allContacts, primaryId) ==
  LET primary == CHOOSE c \in Range(allContacts) : c.id = primaryId
      IsOther(c) == c.id # primaryId
      secondaries == Reverse(SelectSeq(allContacts, IsOther))
  IN [primaryContatctId |-> primaryId,
      emails |-> AppendNew(<<>>, <<primary.email>> \o Column(secondaries, "email")),
      phoneNumbers |->
        AppendNew(<<>>, <<primary.phoneNumber>> \o Column(secondaries, "phoneNumber")),
      secondaryContactIds |-> Column(secondaries, "id")]

\* buildResponse, for allContacts holding a row of id primaryId
buildResponse(allContacts, primaryId) ==
  LET primary == allContacts[CHOOSE i \in 1..Len(allContacts) :
                     /\ allContacts[i].id = primaryId
                     /\ \A j \in 1..(i - 1) : allContacts[j].id # primaryId]
      IsOther(c) == c.id # primaryId
      secondaries == SelectSeq(allContacts, IsOther)
  IN [primaryContatctId |-> primaryId,
      emails |-> AppendNew(<<>>, <<primary.email>> \o Column(secondaries, "email")),
      phoneNumbers |->
        AppendNew(<<>>, <<primary.phoneNumber>> \o Column(secondaries, "phoneNumber")),
      secondaryContactIds |-> Column(secondaries, "id")]

\* ------------------------------------------------------- identifyContact
Ids(cs) == {cs[i].id : i \in 1..Len(cs)}

\* What a call did: the fields of `last`, plus the committed store and the
\* id sequence it leaves. written counts the rows the transaction had
\* inserted or updated when it ended.
Outcome(req, store, tx, nid, status, error, response, acquired, matched, cluster, losers) ==
  [store |-> store, nextId |-> nid, status |-> status, error |-> error,
   email |-> req.email, phoneNumber |-> req.phoneNumber,
   response |-> response, acquired |-> acquired, released |-> 0,
   written |-> Cardinality(tx \ req.pre),
   matched |-> matched, cluster |-> cluster, losers |-> losers,
   reassigned |-> {c.id : c \in {d \in Live(req.pre) : d.linkedId \in losers}}]

\* client.release() at the end of the try block instead of in finally
Finally_OnlyOnSuccess(o) ==
  IF o.status = "ok" THEN [o EXCEPT !.released = @ + 1] ELSE o

\* finally { client.release() }
Finally(o) == [o EXCEPT !.released = @ + 1]

\* a catch block that issues no ROLLBACK before the connection goes back
CatchRollback_None(pre, tx) == tx

\* await client.query("ROLLBACK"): the committed store is the one before the
\* transaction, whatever the transaction had written
CatchRollback(pre, tx) == pre

\* throw before the try block: pool.connect() was not reached, or it failed
Thrown(req, error) ==
  {Outcome(req, req.pre, req.pre, req.nid, "error", error, NoResponse, 0, {}, {}, {})}

\* catch (err) { ROLLBACK; throw err } finally { release }: tx is what the
\* transaction had written when a statement threw; the ROLLBACK may throw too
Caught(req, tx, error) ==
  {Finally(Outcome(req, CatchRollback(req.pre, tx), tx, req.nid, "error", e,
                   NoResponse, 1, {}, {}, {})) : e \in {error, "rollback"}}

\* a throw after COMMIT: the ROLLBACK in catch finds no transaction
CaughtAfterCommit(req, tx, nid, error) ==
  {Finally(Outcome(req, tx, tx, nid, "error", e, NoResponse, 1, {}, {}, {})) :
     e \in {error, "rollback"}}

\* COMMIT; return buildResponse(...) finally { release }
Returned(req, tx, nid, response, matched, cluster, losers) ==
  {Finally(Outcome(req, tx, tx, nid, "ok", "none", response, 1,
                   matched, cluster, losers))}

\* Step 4 and the commit (lines 237-259). truePrimary is <<>> for the
\* undefined primaries[0] of a cluster without a primary row.
AfterResolve(req, matched, tx, cluster, truePrimary, losers) ==
  LET existingEmails == {cluster[i].email : i \in 1..Len(cluster)} \ {Null}
      existingPhones == {cluster[i].phoneNumber : i \in 1..Len(cluster)} \ {Null}
      hasNewEmail == req.email # Null /\ req.email \notin existingEmails
      hasNewPhone == req.phoneNumber # Null /\ req.phoneNumber \notin existingPhones
  IN IF hasNewEmail \/ hasNewPhone
       THEN IF truePrimary = <<>>
              THEN Caught(req, tx, "type")
              ELSE LET secondary ==
                         createSecondaryContact(req.nid, req.email, req.phoneNumber,
                                                truePrimary[1].id, req.now)
                       tx2 == tx \cup {secondary}
                       all == Append(cluster, secondary)
                   IN Caught(req, tx, "storage")           \* the INSERT fails
                        \cup Caught(req, tx2, "storage")   \* the COMMIT fails
                        \cup Returned(req, tx2, req.nid + 1,
                                      buildResponse(all, truePrimary[1].id),
                                      matched, Ids(all), losers)
       ELSE Caught(req, tx, "storage")                     \* the COMMIT fails
              \cup IF truePrimary = <<>>
                     THEN CaughtAfterCommit(req, tx, req.nid, "type")
                     ELSE Returned(req, tx, req.nid,
                                   buildResponse(cluster, truePrimary[1].id),
                                   matched, Ids(cluster), losers)

\* Step 3 (lines 214-235)
AfterExpand(req, matched, cluster) ==
  LET primaries == SelectSeq(cluster, IsPrimary)
  IN IF Len(primaries) > 1
       THEN LET sorted == SortPrimaries(primaries)
                truePrimary == sorted[1]
                losers == Tail(sorted)
                nOps == 2 * Len(losers)
                merged == MergeSteps(req.pre, losers, truePrimary.id, req.now, nOps)
            IN \* one of the updates fails, after k of them
               UNION {Caught(req, MergeSteps(req.pre, losers, truePrimary.id, req.now, k),
                             "storage") : k \in 0..(nOps - 1)}
                 \cup Caught(req, merged, "storage")       \* the second fetch fails
                 \cup UNION {AfterResolve(req, matched, merged, cluster2,
                                          <<truePrimary>>, Ids(losers)) :
                               cluster2 \in fetchFullCluster(merged, <<truePrimary>>)}
       ELSE AfterResolve(req, matched, req.pre, cluster, primaries, {})

\* Steps 1 and 2 (lines 202-212)
AfterLookup(req, matched) ==
  IF Len(matched) = 0
    THEN LET newContact ==
               createPrimaryContact(req.nid, req.email, req.phoneNumber, req.now)
             tx == req.pre \cup {newContact}
         IN Caught(req, req.pre, "storage")                \* the INSERT fails
              \cup Caught(req, tx, "storage")              \* the COMMIT fails
              \cup Returned(req, tx, req.nid + 1,
                            buildResponse(<<newContact>>, newContact.id),
                            {}, {newContact.id}, {})
    ELSE Caught(req, req.pre, "storage")                   \* the fetch fails
           \cup UNION {AfterExpand(req, Ids(matched), cluster) :
                         cluster \in fetchFullCluster(req.pre, matched)}

\* The outcomes of identifyContact(body) on the committed store, the
\* transaction starting at time now: any storage operation may fail.
identifyContact(store, nid, body, now) ==
  LET req == [email |-> Normalize(body.email),
              phoneNumber |-> Normalize(body.phoneNumber),
              pre |-> store, nid |-> nid, now |-> now]
  IN IF req.email = Null /\ req.phoneNumber = Null
       THEN Thrown(req, "invalid")
       ELSE Thrown(req, "storage")                         \* pool.connect() fails
              \cup Caught(req, store, "storage")           \* BEGIN or the lookup fails
              \cup UNION {AfterLookup(req, matched) :
                            matched \in findMatchingContacts(store, req.email,
                                                             req.phoneNumber)}

\* --------------------------------------------------------- state machine
NoCall ==
  [status |-> "none", error |-> "none", email |-> Null, phoneNumber |-> Null,
   response |-> NoResponse, acquired |-> 0, released |-> 0, written |-> 0,
   matched |-> {}, cluster |-> {}, losers |-> {}, reassigned |-> {}]

\* the two overlapping transactions
Txs == {1, 2}

\* a transaction that has not started: its position and the locals of
\* identifyContact
IdleTx ==
  [pc |-> "idle", email |-> Null, phoneNumber |-> Null, now |-> 0,
   fresh |-> FALSE, matched |-> <<>>, cluster |-> <<>>, truePrimary |-> <<>>,
   losers |-> <<>>, i |-> 1, touched |-> {}, pending |-> <<>>, writes |-> {},
   response |-> NoResponse, error |-> "none"]

\* no request has come in over HTTP
NoHttp == [body |-> [email |-> Null, phoneNumber |-> Null], status |-> 0]

Init ==
  /\ contacts = {}
  /\ nextId = 1
  /\ clock = 0
  /\ inUse = 0
  /\ last = NoCall
  /\ http = NoHttp
  /\ txs = [t \in Txs |-> IdleTx]

\* One identifyContact call, run to its end
Identify ==
  \E rawEmail \in RawEmails, rawPhone \in RawPhones, dt \in 0..1 :
    /\ clock + dt <= MaxClock
    /\ \E out \in identifyContact(contacts, nextId,
                                   [email |-> rawEmail, phoneNumber |-> rawPhone],
                                   clock + dt) :
         /\ out.nextId <= MaxContacts + 1
         /\ contacts' = out.store
         /\ nextId' = out.nextId
         /\ clock' = clock + dt
         /\ inUse' = inUse + out.acquired - out.released
         /\ last' = [f \in DOMAIN NoCall |-> out[f]]
         /\ UNCHANGED <<http, txs>>

\* A row is soft-deleted by something other than identifyContact
Tombstone ==
  \E c \in Live(contacts) :
    /\ Cardinality(contacts \ Live(contacts)) < MaxTombstones
    /\ contacts' = (contacts \ {c}) \cup {[c EXCEPT !.deletedAt = <<clock>>]}
    /\ last' = NoCall
    /\ UNCHANGED <<nextId, clock, inUse, http, txs>>

\* !value of an optional string: absent and "" are falsy
Falsy(raw) == raw = Null \/ raw[1] = <<>>

\* router.post("/identify"): 400 when both fields are falsy, else the call,
\* answered 200 when it returns and 500 when it throws
PostIdentify ==
  \E rawEmail \in HttpEmails, rawPhone \in HttpPhones, dt \in 0..1 :
    LET body == [email |-> rawEmail, phoneNumber |-> rawPhone]
    IN /\ clock + dt <= MaxClock
       /\ clock' = clock + dt
       /\ IF Falsy(body.email) /\ Falsy(body.phoneNumber)
            THEN /\ http' = [body |-> body, status |-> 400]
                 /\ last' = NoCall
                 /\ UNCHANGED <<contacts, nextId, inUse, txs>>
            ELSE \E out \in identifyContact(contacts, nextId, body, clock + dt) :
                   /\ out.nextId <= MaxContacts + 1
                   /\ contacts' = out.store
                   /\ nextId' = out.nextId
                   /\ inUse' = inUse + out.acquired - out.released
                   /\ last' = [f \in DOMAIN NoCall |-> out[f]]
                   /\ http' = [body |-> body,
                               status |-> IF out.status = "ok" THEN 200 ELSE 500]
                   /\ UNCHANGED txs

Next == Identify

Spec == Init /\ [][Next]_vars

NextDel == Identify \/ Tombstone

SpecDel == Init /\ [][NextDel]_vars

NextHttp == PostIdentify

SpecHttp == Init /\ [][NextHttp]_vars

\* ------------------------------------------------ overlapping transactions
\* The committed stores, with the id sequence and the clock, that serial
\* successful calls leave: at most n calls from the empty table.
RECURSIVE SerialStores(_)
SerialStores(n) ==
  IF n = 0 THEN {[store |-> {}, nextId |-> 1, clock |-> 0]}
  ELSE LET prev == SerialStores(n - 1)
           Calls(s) ==
             {[body |-> [email |-> e, phoneNumber |-> p], now |-> s.clock + dt] :
                e \in RawEmails, p \in RawPhones,
                dt \in {d \in 0..1 : s.clock + d <= MaxClock}}
           After(s, c) ==
             {[store |-> o.store, nextId |-> o.nextId, clock |-> c.now] :
                o \in {out \in identifyContact(s.store, s.nextId, c.body, c.now) :
                         out.status = "ok" /\ out.nextId <= MaxContacts + 1}}
       IN prev \cup UNION {UNION {After(s, c) : c \in Calls(s)} : s \in prev}

InitConc ==
  /\ \E s \in SerialStores(MaxPrefixCalls) :
       /\ contacts = s.store
       /\ nextId = s.nextId
       /\ clock = s.clock
  /\ inUse = 0
  /\ last = NoCall
  /\ http = NoHttp
  /\ txs = [t \in Txs |-> IdleTx]

IdSet(rows) == {c.id : c \in rows}

\* What a statement of transaction t reads: the committed rows, overlaid
\* with the rows the transaction has written itself
View(t) ==
  {c \in contacts : c.id \notin IdSet(txs[t].writes)} \cup txs[t].writes

\* One of the rows an UPDATE of t is about to write carries the row lock of
\* the other transaction, which has written it and not yet ended
Blocked(t, targets) ==
  \E u \in Txs \ {t} : targets \cap IdSet(txs[u].writes) # {}

\* The rows written by t once an UPDATE has turned the rows sub into upd
Written(t, sub, upd) ==
  LET changed == upd \ sub
  IN {w \in txs[t].writes : w.id \notin IdSet(changed)} \cup changed

\* lines 238-248: the position after the cluster is known
AfterCluster(tx, cluster) ==
  LET existingEmails == {cluster[k].email : k \in 1..Len(cluster)} \ {Null}
      existingPhones == {cluster[k].phoneNumber : k \in 1..Len(cluster)} \ {Null}
      hasNewEmail == tx.email # Null /\ tx.email \notin existingEmails
      hasNewPhone == tx.phoneNumber # Null /\ tx.phoneNumber \notin existingPhones
  IN IF hasNewEmail \/ hasNewPhone THEN "insertSecondary" ELSE "commit"

\* lines 190-200: trim, validate, pool.connect(), BEGIN. NOW() is the time
\* the transaction starts. fresh records that no committed live row carried
\* the email or the phone number at that time.
Begin(t) ==
  \E rawEmail \in RawEmails, rawPhone \in RawPhones, dt \in 0..1 :
    LET email == Normalize(rawEmail)
        phoneNumber == Normalize(rawPhone)
    IN /\ txs[t].pc = "idle"
       /\ clock + dt <= MaxClock
       /\ clock' = clock + dt
       /\ IF email = Null /\ phoneNumber = Null
            THEN /\ txs' = [txs EXCEPT ![t].pc = "failed", ![t].error = "invalid"]
                 /\ UNCHANGED inUse
            ELSE /\ txs' = [txs EXCEPT
                              ![t].pc = "lookup",
                              ![t].email = email,
                              ![t].phoneNumber = phoneNumber,
                              ![t].now = clock + dt,
                              ![t].fresh =
                                 \A c \in Live(contacts) :
                                   /\ email = Null \/ c.email # email
                                   /\ phoneNumber = Null \/ c.phoneNumber # phoneNumber]
                 /\ inUse' = inUse + 1
       /\ UNCHANGED <<contacts, nextId, last, http>>

\* lines 203-205
Lookup(t) ==
  /\ txs[t].pc = "lookup"
  /\ \E matched \in findMatchingContacts(View(t), txs[t].email, txs[t].phoneNumber) :
       txs' = [txs EXCEPT ![t].matched = matched,
                          ![t].pc = IF Len(matched) = 0 THEN "insertPrimary"
                                    ELSE "fetch"]
  /\ UNCHANGED <<contacts, nextId, clock, inUse, last, http>>

\* line 206; the id sequence moves on at once, the row is visible to others
\* after the COMMIT
InsertPrimary(t) ==
  LET tx == txs[t]
      newContact == createPrimaryContact(nextId, tx.email, tx.phoneNumber, tx.now)
  IN /\ tx.pc = "insertPrimary"
     /\ nextId <= MaxContacts
     /\ nextId' = nextId + 1
     /\ txs' = [txs EXCEPT ![t].writes = tx.writes \cup {newContact},
                           ![t].cluster = <<newContact>>,
                           ![t].truePrimary = <<newContact>>,
                           ![t].touched = {newContact.id},
                           ![t].pc = "commit"]
     /\ UNCHANGED <<contacts, clock, inUse, last, http>>

\* lines 212-224 and 233-248: the cluster of the rows as the lookup read
\* them, its primaries and their sort. matched is not read after this.
Fetch(t) ==
  LET tx == txs[t]
  IN /\ tx.pc = "fetch"
     /\ \E cluster \in fetchFullCluster(View(t), tx.matched) :
          LET primaries == SelectSeq(cluster, IsPrimary)
              sorted == SortPrimaries(primaries)
          IN txs' = [txs EXCEPT
                       ![t].matched = <<>>,
                       ![t].cluster = cluster,
                       ![t].touched = Ids(primaries),
                       ![t].truePrimary =
                          IF Len(primaries) > 1 THEN <<sorted[1]>> ELSE primaries,
                       ![t].losers =
                          IF Len(primaries) > 1 THEN Tail(sorted) ELSE <<>>,
                       ![t].pc = IF Len(primaries) > 1 THEN "reassign"
                                 ELSE AfterCluster(tx, cluster)]
     /\ UNCHANGED <<contacts, nextId, clock, inUse, last, http>>

\* line 228: the UPDATE picks its rows among those it can read when it
\* starts; if the other transaction holds the lock of one of them it waits
\* (pending), and once the lock is gone it writes the picked rows whose
\* latest version still has "linkedId" = $2.
Reassign(t) ==
  LET tx == txs[t]
      loser == tx.losers[tx.i]
      targets == IF tx.pending = <<>>
                   THEN {c.id : c \in {d \in View(t) :
                                         d.linkedId = loser.id /\ d.deletedAt = Null}}
                   ELSE tx.pending[1]
      sub == {c \in View(t) : c.id \in targets}
      upd == reassignSecondaries(sub, loser.id, tx.truePrimary[1].id, tx.now)
  IN /\ tx.pc = "reassign"
     /\ IF Blocked(t, targets)
          THEN /\ tx.pending = <<>>
               /\ txs' = [txs EXCEPT ![t].pending = <<targets>>]
          ELSE txs' = [txs EXCEPT ![t].writes = Written(t, sub, upd),
                                  ![t].pending = <<>>,
                                  ![t].pc = "demote"]
     /\ UNCHANGED <<contacts, nextId, clock, inUse, last, http>>

\* line 229, with the same waiting; then the next loser, or the second
\* fetch
Demote(t) ==
  LET tx == txs[t]
      loser == tx.losers[tx.i]
      targets == IF tx.pending = <<>>
                   THEN {c.id : c \in {d \in View(t) : d.id = loser.id}}
                   ELSE tx.pending[1]
      sub == {c \in View(t) : c.id \in targets}
      upd == demoteToSecondary(sub, loser.id, tx.truePrimary[1].id, tx.now)
  IN /\ tx.pc = "demote"
     /\ IF Blocked(t, targets)
          THEN /\ tx.pending = <<>>
               /\ txs' = [txs EXCEPT ![t].pending = <<targets>>]
          ELSE txs' = [txs EXCEPT ![t].writes = Written(t, sub, upd),
                                  ![t].pending = <<>>,
                                  ![t].i = tx.i + 1,
                                  ![t].pc = IF tx.i < Len(tx.losers) THEN "reassign"
                                            ELSE "refetch"]
     /\ UNCHANGED <<contacts, nextId, clock, inUse, last, http>>

\* lines 232 and 238-248
Refetch(t) ==
  LET tx == txs[t]
  IN /\ tx.pc = "refetch"
     /\ \E cluster \in fetchFullCluster(View(t), tx.truePrimary) :
          txs' = [txs EXCEPT ![t].cluster = cluster,
                             ![t].pc = AfterCluster(tx, cluster)]
     /\ UNCHANGED <<contacts, nextId, clock, inUse, last, http>>

\* lines 249-256; truePrimary.id throws when the cluster had no primary, and
\* the catch block rolls back and releases
InsertSecondary(t) ==
  LET tx == txs[t]
  IN /\ tx.pc = "insertSecondary"
     /\ IF tx.truePrimary = <<>>
          THEN /\ txs' = [txs EXCEPT ![t].writes = {}, ![t].cluster = <<>>,
                                     ![t].pc = "failed", ![t].error = "type"]
               /\ inUse' = inUse - 1
               /\ UNCHANGED nextId
          ELSE LET secondary ==
                     createSecondaryContact(nextId, tx.email, tx.phoneNumber,
                                            tx.truePrimary[1].id, tx.now)
               IN /\ nextId <= MaxContacts
                  /\ nextId' = nextId + 1
                  /\ txs' = [txs EXCEPT ![t].writes = tx.writes \cup {secondary},
                                        ![t].cluster = Append(tx.cluster, secondary),
                                        ![t].pc = "commit"]
                  /\ UNCHANGED inUse
     /\ UNCHANGED <<contacts, clock, last, http>>

\* lines 207-208 and 258-265: COMMIT publishes the written rows and drops
\* the locks; then the response, or the throw of truePrimary.id
Commit(t) ==
  LET tx == txs[t]
  IN /\ tx.pc = "commit"
     /\ contacts' = View(t)
     /\ inUse' = inUse - 1
     /\ txs' = [txs EXCEPT
                  ![t].writes = {},
                  ![t].cluster = <<>>,
                  ![t].pc = IF tx.truePrimary = <<>> THEN "failed" ELSE "done",
                  ![t].error = IF tx.truePrimary = <<>> THEN "type" ELSE "none",
                  ![t].response =
                     IF tx.truePrimary = <<>> THEN NoResponse
                     ELSE buildResponse(tx.cluster, tx.truePrimary[1].id)]
     /\ UNCHANGED <<nextId, clock, last, http>>

NextConc ==
  \E t \in Txs :
    \/ Begin(t)
    \/ Lookup(t)
    \/ InsertPrimary(t)
    \/ Fetch(t)
    \/ Reassign(t)
    \/ Demote(t)
    \/ Refetch(t)
    \/ InsertSecondary(t)
    \/ Commit(t)

SpecConc == InitConc /\ [][NextConc]_vars

\* ================================================================ claims
Row(store, id) == CHOOSE c \in store : c.id = id
HasRow(store, id) == \E c \in store : c.id = id

\* C1: in every store reachable by serial identifyContact calls, each
\* non-deleted contact is primary with linkedId null, or secondary with
\* linkedId the id of a non-deleted primary (no chain of two hops).
C1_LinkHierarchy ==
  \A c \in Live(contacts) :
    \/ IsPrimary(c) /\ c.linkedId = NoLink
    \/ /\ c.linkPrecedence = "secondary"
       /\ \E p \in Live(contacts) :
            p.id = c.linkedId /\ IsPrimary(p) /\ p.linkedId = NoLink

\* a merge has just demoted a primary that had a secondary of its own
C1_Witness ==
  /\ last.status = "ok"
  /\ last.losers # {}
  /\ last.reassigned # {}
  /\ \A id \in last.losers \cup last.reassigned :
       HasRow(contacts, id) /\ Row(contacts, id).linkPrecedence = "secondary"

\* the two contacts hold no common email and no common phone number
Disjoint(a, b) ==
  /\ a.email = Null \/ a.email # b.email
  /\ a.phoneNumber = Null \/ a.phoneNumber # b.phoneNumber

\* C2: for live primaries A, B with A.createdAt < B.createdAt and disjoint
\* values, a successful call carrying one identifier of A and the other of B
\* (A's email with B's phone, or B's email with A's phone) leaves A primary,
\* makes B a secondary of A and answers with A's id as the primary id.
C2_MergePicksOldest ==
  [][\A a, b \in Live(contacts) :
       ( /\ last'.status = "ok"
         /\ IsPrimary(a) /\ IsPrimary(b)
         /\ a.createdAt < b.createdAt
         /\ Disjoint(a, b)
         /\ \/ /\ a.email # Null /\ last'.email = a.email
               /\ b.phoneNumber # Null /\ last'.phoneNumber = b.phoneNumber
            \/ /\ b.email # Null /\ last'.email = b.email
               /\ a.phoneNumber # Null /\ last'.phoneNumber = a.phoneNumber )
       => /\ HasRow(contacts', a.id) /\ HasRow(contacts', b.id)
          /\ IsPrimary(Row(contacts', a.id))
          /\ Row(contacts', a.id).linkedId = NoLink
          /\ Row(contacts', b.id).linkPrecedence = "secondary"
          /\ Row(contacts', b.id).linkedId = a.id
          /\ last'.response.primaryContatctId = a.id]_vars

\* a merge has just demoted a primary under a strictly older one
C2_Witness ==
  /\ last.status = "ok"
  /\ \E id \in last.losers :
       /\ HasRow(contacts, id)
       /\ LET b == Row(contacts, id)
          IN /\ b.linkedId = last.response.primaryContatctId
             /\ HasRow(contacts, b.linkedId)
             /\ Row(contacts, b.linkedId).createdAt < b.createdAt

\* C3: when a successful call demotes primary B under A, every non-deleted
\* secondary C that pointed to B before the call points to A after it, and
\* C's id is in the returned secondaryContactIds.
C3_MergeReparents ==
  [][last'.status = "ok" =>
       \A b \in contacts, c \in Live(contacts) :
         ( /\ IsPrimary(b)
           /\ HasRow(contacts', b.id)
           /\ ~IsPrimary(Row(contacts', b.id))
           /\ ~IsPrimary(c)
           /\ c.linkedId = b.id )
         => /\ HasRow(contacts', c.id)
            /\ Row(contacts', c.id).linkedId = Row(contacts', b.id).linkedId
            /\ Row(contacts', c.id).linkedId # b.id
            /\ Row(contacts', c.id).linkedId = last'.response.primaryContatctId
            /\ c.id \in Range(last'.response.secondaryContactIds)]_vars

\* a merge has just re-parented a secondary of the demoted primary
C3_Witness ==
  /\ last.status = "ok"
  /\ last.reassigned # {}
  /\ \A id \in last.reassigned :
       /\ Row(contacts, id).linkedId = last.response.primaryContatctId
       /\ id \in Range(last.response.secondaryContactIds)

\* the linkage columns of a store
Linkage(store) ==
  {[id |-> c.id, linkPrecedence |-> c.linkPrecedence, linkedId |-> c.linkedId] :
     c \in store}

\* C4: a successful call that immediately follows a successful call with the
\* same (email, phone) inserts no row, changes no contact's linkPrecedence or
\* linkedId, and returns the same response (same primary id, same emails,
\* phoneNumbers and secondaryContactIds in the same order).
C4_ReidentifyIdempotent ==
  [][( /\ last.status = "ok"
       /\ last'.status = "ok"
       /\ last'.email = last.email
       /\ last'.phoneNumber = last.phoneNumber )
     => /\ Linkage(contacts') = Linkage(contacts)
        /\ last'.response = last.response]_vars

\* What the code does keep of idempotence (it holds): no insert, no change of
\* linkage, and a response with the same primary id and the same sets of
\* values and ids; only the order within the lists may differ.
C4_ReidentifySameUpToOrder ==
  [][( /\ last.status = "ok"
       /\ last'.status = "ok"
       /\ last'.email = last.email
       /\ last'.phoneNumber = last.phoneNumber )
     => /\ Linkage(contacts') = Linkage(contacts)
        /\ last'.response.primaryContatctId = last.response.primaryContatctId
        /\ Range(last'.response.emails) = Range(last.response.emails)
        /\ Range(last'.response.phoneNumbers) = Range(last.response.phoneNumbers)
        /\ Range(last'.response.secondaryContactIds)
             = Range(last.response.secondaryContactIds)
        /\ Len(last'.response.secondaryContactIds)
             = Len(last.response.secondaryContactIds)]_vars

\* the live contacts of the cluster of primary p
Members(store, p) == {c \in Live(store) : c.id = p.id \/ c.linkedId = p.id}

\* the position of v in seq (0 when absent)
IndexOf(seq, v) ==
  IF v \in Range(seq) THEN CHOOSE i \in 1..Len(seq) : seq[i] = v ELSE 0

\* C5: when a cluster holds email E1 and a phone P1, and P2 is the phone of
\* no non-deleted contact, a successful identifyContact(E1, P2) inserts
\* exactly one row, a secondary of the cluster's primary with email E1 and
\* phone P2, changes no other row, and returns phoneNumbers holding P1
\* before P2.
C5_NoveltyCreatesSecondary ==
  [][\A p \in Live(contacts) :
       \A c1, c2 \in Members(contacts, p) :
         ( /\ last'.status = "ok"
           /\ IsPrimary(p)
           /\ last'.email # Null /\ c1.email = last'.email
           /\ c2.phoneNumber # Null
           /\ last'.phoneNumber # Null
           /\ \A c \in Live(contacts) : c.phoneNumber # last'.phoneNumber )
         => /\ \E n \in contacts' :
                 /\ n \notin contacts
                 /\ \A c \in contacts : c.id # n.id
                 /\ contacts' = contacts \cup {n}
                 /\ n.linkPrecedence = "secondary"
                 /\ n.linkedId = p.id
                 /\ n.email = last'.email
                 /\ n.phoneNumber = last'.phoneNumber
                 /\ n.deletedAt = Null
            /\ IndexOf(last'.response.phoneNumbers, c2.phoneNumber[1]) > 0
            /\ IndexOf(last'.response.phoneNumbers, c2.phoneNumber[1])
                 < IndexOf(last'.response.phoneNumbers, last'.phoneNumber[1])]_vars

\* the call has just added a secondary carrying a known email and a phone
\* number that is new to a cluster which already had one
C5_Witness ==
  /\ last.status = "ok"
  /\ last.matched # {}
  /\ last.email # Null /\ last.phoneNumber # Null
  /\ Len(last.response.phoneNumbers) = 2
  /\ last.response.phoneNumbers[2] = last.phoneNumber[1]
  /\ \E n \in contacts :
       /\ n.id \notin last.matched
       /\ n.id \in last.cluster
       /\ n.linkPrecedence = "secondary"
       /\ n.linkedId = last.response.primaryContatctId
       /\ n.email = last.email /\ n.phoneNumber = last.phoneNumber
       /\ \E m \in last.matched : Row(contacts, m).email = last.email

\* C6: when no non-deleted contact has the input email or the input phone, a
\* successful call inserts exactly one row, primary with linkedId null,
\* changes no existing row, and returns the new row's id as the primary id
\* with an empty secondaryContactIds.
C6_NoMatchCreatesPrimary ==
  [][( /\ last'.status = "ok"
       /\ \A c \in Live(contacts) :
            /\ last'.email = Null \/ c.email # last'.email
            /\ last'.phoneNumber = Null \/ c.phoneNumber # last'.phoneNumber )
     => \E n \in contacts' :
          /\ n \notin contacts
          /\ \A c \in contacts : c.id # n.id
          /\ contacts' = contacts \cup {n}
          /\ IsPrimary(n) /\ n.linkedId = NoLink
          /\ n.email = last'.email /\ n.phoneNumber = last'.phoneNumber
          /\ n.deletedAt = Null
          /\ last'.response.primaryContatctId = n.id
          /\ last'.response.secondaryContactIds = <<>>]_vars

\* the call matched nothing in a store that already held a contact, and its
\* new primary is the primary of the response
C6_Witness ==
  /\ last.status = "ok"
  /\ last.matched = {}
  /\ Cardinality(contacts) >= 2
  /\ HasRow(contacts, last.response.primaryContatctId)
  /\ last.cluster = {last.response.primaryContatctId}
  /\ IsPrimary(Row(contacts, last.response.primaryContatctId))

\* no value occurs twice in seq
NoDuplicates(seq) == \A i, j \in 1..Len(seq) : seq[i] = seq[j] => i = j

\* seq without its first element when skip holds
Rest(seq, skip) == IF skip /\ seq # <<>> THEN Tail(seq) ELSE seq

\* the values follow the order of the secondaries ids that carry them in
\* column f: the first carrier of each value comes after the first carrier
\* of the value before it
FollowsCarriers(values, ids, store, f) ==
  LET Carrier(v) ==
        IF \E i \in 1..Len(ids) : Row(store, ids[i])[f] = <<v>>
          THEN CHOOSE i \in 1..Len(ids) :
                 /\ Row(store, ids[i])[f] = <<v>>
                 /\ \A j \in 1..(i - 1) : Row(store, ids[j])[f] # <<v>>
          ELSE 0
  IN /\ \A k \in 1..Len(values) : Carrier(values[k]) > 0
     /\ \A k \in 1..(Len(values) - 1) : Carrier(values[k]) < Carrier(values[k + 1])

\* C7: every response returned has the true primary's non-null email first
\* in emails and its non-null phone first in phoneNumbers; the other values
\* follow in the order of the secondaries that carry them, which is ascending
\* createdAt (secondaries of equal createdAt in either order); neither list
\* repeats a value or misses one of the cluster; secondaryContactIds lists
\* every non-primary contact of the cluster exactly once, in that order.
C7_ProjectionOrder ==
  last.status = "ok" =>
    LET r == last.response
        ids == r.secondaryContactIds
    IN /\ HasRow(Live(contacts), r.primaryContatctId)
       /\ LET p == Row(contacts, r.primaryContatctId)
              others == Members(contacts, p) \ {p}
          IN /\ IsPrimary(p)
             /\ p.email # Null => r.emails # <<>> /\ r.emails[1] = p.email[1]
             /\ p.phoneNumber # Null =>
                  r.phoneNumbers # <<>> /\ r.phoneNumbers[1] = p.phoneNumber[1]
             /\ NoDuplicates(r.emails)
             /\ NoDuplicates(r.phoneNumbers)
             /\ NoDuplicates(ids)
             /\ Range(ids) = {c.id : c \in others}
             /\ \A i \in 1..(Len(ids) - 1) :
                  Row(contacts, ids[i]).createdAt <= Row(contacts, ids[i + 1]).createdAt
             /\ {<<v>> : v \in Range(r.emails)}
                  = {c.email : c \in Members(contacts, p)} \ {Null}
             /\ {<<v>> : v \in Range(r.phoneNumbers)}
                  = {c.phoneNumber : c \in Members(contacts, p)} \ {Null}
             /\ FollowsCarriers(Rest(r.emails, p.email # Null), ids, contacts, "email")
             /\ FollowsCarriers(Rest(r.phoneNumbers, p.phoneNumber # Null), ids,
                                contacts, "phoneNumber")

\* a response over two secondaries created at different times, with a phone
\* number of the primary and another one of a secondary
C7_Witness ==
  /\ last.status = "ok"
  /\ Len(last.response.secondaryContactIds) = 2
  /\ Len(last.response.phoneNumbers) = 2
  /\ Row(contacts, last.response.primaryContatctId).phoneNumber # Null
  /\ Row(contacts, last.response.secondaryContactIds[1]).createdAt
       < Row(contacts, last.response.secondaryContactIds[2]).createdAt

\* the soft-deleted rows of a store
Dead(store) == store \ Live(store)

\* C8: a soft-deleted contact is never among the rows a successful call
\* looked up or expanded, its id is never in the response and every value of
\* the response is carried by a live row of the cluster; when only
\* soft-deleted rows match the input, the call creates a fresh primary for it
\* and returns that primary alone.
C8_TombstonesInvisible ==
  [][last'.status = "ok" =>
       LET dead == {c.id : c \in Dead(contacts)}
           r == last'.response
           cluster == {c \in Live(contacts') : c.id \in last'.cluster}
       IN /\ last'.matched \cap dead = {}
          /\ last'.cluster \cap dead = {}
          /\ ({r.primaryContatctId} \cup Range(r.secondaryContactIds)) \cap dead = {}
          /\ \A v \in Range(r.emails) : \E c \in cluster : c.email = <<v>>
          /\ \A v \in Range(r.phoneNumbers) : \E c \in cluster : c.phoneNumber = <<v>>
          /\ (\A c \in Live(contacts) :
                /\ last'.email = Null \/ c.email # last'.email
                /\ last'.phoneNumber = Null \/ c.phoneNumber # last'.phoneNumber)
             => \E n \in contacts' :
                  /\ contacts' = contacts \cup {n}
                  /\ \A c \in contacts : c.id # n.id
                  /\ IsPrimary(n) /\ n.linkedId = NoLink /\ n.deletedAt = Null
                  /\ n.email = last'.email /\ n.phoneNumber = last'.phoneNumber
                  /\ r.primaryContatctId = n.id
                  /\ r.secondaryContactIds = <<>>
                  /\ r.emails = (IF n.email = Null THEN <<>> ELSE n.email)
                  /\ r.phoneNumbers
                       = (IF n.phoneNumber = Null THEN <<>> ELSE n.phoneNumber)]_vars

\* the call found only a soft-deleted row carrying its email or phone, and
\* answered with the fresh primary it created
C8_Witness ==
  /\ last.status = "ok"
  /\ last.matched = {}
  /\ \E d \in Dead(contacts) :
       \/ last.email # Null /\ d.email = last.email
       \/ last.phoneNumber # Null /\ d.phoneNumber = last.phoneNumber
  /\ \E n \in Live(contacts) :
       /\ n.id = last.response.primaryContatctId
       /\ n.id = nextId - 1
       /\ IsPrimary(n)
       /\ last.response.secondaryContactIds = <<>>

\* C9: when a storage step of a call fails (the connect, BEGIN, a query, an
\* update, the insert or the COMMIT; the ROLLBACK may fail after it), the
\* call ends with an error and no response, and the committed store is the
\* one before the call.
C9_FailureRollsBack ==
  [][last'.error \in {"storage", "rollback"} =>
       /\ last'.status = "error"
       /\ last'.response = NoResponse
       /\ contacts' = contacts
       /\ nextId' = nextId]_vars

\* a call failed after its transaction had written two rows or more, so at
\* least one of them an update of an existing row (a call inserts one row at
\* most)
C9_Witness ==
  /\ last.status = "error"
  /\ last.error = "storage"
  /\ last.written >= 2

\* C10: after every call no connection is left checked out: a call that
\* acquired a connection released it exactly once, whether it returned (no
\* match or match), failed in the transaction, or failed in the ROLLBACK.
C10_ConnectionReleased ==
  /\ inUse = 0
  /\ last.released = last.acquired
  /\ last.status = "ok" => last.acquired = 1
  /\ last.error = "rollback" => last.acquired = 1

\* the ROLLBACK of a transaction that had written rows failed, and the
\* connection is back in the pool
C10_Witness ==
  /\ last.error = "rollback"
  /\ last.written > 0
  /\ last.acquired = 1 /\ last.released = 1
  /\ inUse = 0

\* C12: under serial calls no call changes the createdAt of a contact, and
\* after every call the primary of each cluster has a createdAt no later
\* than that of every contact of its cluster, so of every member that is or
\* ever was a primary.
C12_PrimaryIsOldest ==
  [][ /\ \A c \in contacts :
           \E d \in contacts' : d.id = c.id /\ d.createdAt = c.createdAt
      /\ \A p \in Live(contacts') :
           IsPrimary(p) =>
             \A c \in Members(contacts', p) : p.createdAt <= c.createdAt ]_vars

\* a merge has just demoted a primary created later than the one it now
\* hangs under
C12_Witness ==
  /\ last.status = "ok"
  /\ last.losers # {}
  /\ \A id \in last.losers :
       /\ HasRow(contacts, id)
       /\ Row(contacts, id).linkPrecedence = "secondary"
       /\ HasRow(contacts, Row(contacts, id).linkedId)
       /\ IsPrimary(Row(contacts, Row(contacts, id).linkedId))
       /\ Row(contacts, Row(contacts, id).linkedId).createdAt
            < Row(contacts, id).createdAt

\* a comes before b in (createdAt, id) lexicographic order
Senior(a, b) ==
  \/ a.createdAt < b.createdAt
  \/ a.createdAt = b.createdAt /\ a.id < b.id

\* C13: when a call finds several primaries, the one it keeps is the
\* smallest in (createdAt, id) order: every primary it demotes was created
\* later, or at the same time with a larger id, whatever order the queries
\* returned the rows in.
C13_TieBreakById ==
  [][(last'.status = "ok" /\ last'.losers # {}) =>
       \A id \in last'.losers :
         Senior(Row(contacts, last'.response.primaryContatctId),
                Row(contacts, id))]_vars

\* the stores a successful identifyContact(body), issued now on one of the
\* given stores, may leave
AfterCall(stores, body) ==
  UNION {{o.store : o \in {out \in identifyContact(s, nextId, body, clock) :
                             out.status = "ok"}} : s \in stores}

\* the stores left by issuing the calls of a sequence one after the other
RECURSIVE AfterCalls(_, _)
AfterCalls(stores, bodies) ==
  IF bodies = <<>> THEN stores
  ELSE AfterCalls(AfterCall(stores, Head(bodies)), Tail(bodies))

\* the store holds exactly three contacts, all live primaries, no two of
\* them sharing an email or a phone number
ThreeIndependentPrimaries(store) ==
  /\ Cardinality(store) = 3
  /\ \A c \in store : c.deletedAt = Null /\ IsPrimary(c)
  /\ \A c, d \in store : c.id # d.id => Disjoint(c, d)

\* the requests that carry the email of one contact and the phone number of
\* another
Bridges(store) ==
  {b \in [email : RawEmails, phoneNumber : RawPhones] :
     \E c, d \in store :
       /\ c.id # d.id
       /\ c.email # Null /\ c.email = Normalize(b.email)
       /\ d.phoneNumber # Null /\ d.phoneNumber = Normalize(b.phoneNumber)}

\* the orders in which two different bridging requests can be issued
BridgingOrders(store) ==
  {o \in Bridges(store) \X Bridges(store) : o[1] # o[2]}

\* C14: for three independent primaries, every order of the bridging calls
\* leaves the same linkage: the same primary and the same linkedId for
\* every contact.
C14_MergeOrderIrrelevant ==
  ThreeIndependentPrimaries(contacts) =>
    \A o1, o2 \in BridgingOrders(contacts) :
      \A s1 \in AfterCalls({contacts}, o1), s2 \in AfterCalls({contacts}, o2) :
        Linkage(s1) = Linkage(s2)

\* What the code does keep of it (it holds): when one of the three primaries
\* is strictly the oldest, every order of the bridging calls leaves the other
\* two as its secondaries.
C14_MergeOrderIrrelevantUnderOneOldest ==
  ( /\ ThreeIndependentPrimaries(contacts)
    /\ \E p \in contacts : \A c \in contacts \ {p} : p.createdAt < c.createdAt )
  => /\ BridgingOrders(contacts) # {}
     /\ \A o1, o2 \in BridgingOrders(contacts) :
          /\ AfterCalls({contacts}, o1) # {}
          /\ \A s1 \in AfterCalls({contacts}, o1), s2 \in AfterCalls({contacts}, o2) :
               Linkage(s1) = Linkage(s2)

\* c is a secondary whose linkedId is the id of no live primary of the store
Dangling(store, c) ==
  /\ c.linkPrecedence = "secondary"
  /\ ~\E p \in Live(store) : p.id = c.linkedId /\ IsPrimary(p)

\* the live rows the lookup of a call with this email and phone number finds
MatchedBy(store, email, phoneNumber) ==
  {c \in Live(store) :
     \/ email # Null /\ c.email = email
     \/ phoneNumber # Null /\ c.phoneNumber = phoneNumber}

\* C15: a call whose lookup finds a secondary with a dangling linkedId (its
\* primary is missing, soft-deleted or not a primary) ends with an error and
\* leaves the store as it was; it never returns a response, also when
\* another matched contact supplies a valid primary.
C15_DanglingLinkRejected ==
  [][(\E c \in MatchedBy(contacts, last'.email, last'.phoneNumber) :
        last'.status # "none" /\ Dangling(contacts, c))
     => /\ last'.status = "error"
        /\ contacts' = contacts]_vars

\* C16: a POST /identify whose email and phoneNumber are each absent, empty
\* or blank after trimming is answered 400, never 500.
C16_BlankInputIs400 ==
  ( /\ http.status # 0
    /\ Normalize(http.body.email) = Null
    /\ Normalize(http.body.phoneNumber) = Null )
  => http.status = 400

\* C17: across serial calls every contact keeps its id, email, phoneNumber,
\* createdAt and deletedAt (only linkPrecedence, linkedId and updatedAt can
\* change), and a secondary stays a secondary.
C17_DemotionPermanent ==
  [][\A c \in contacts :
       \E d \in contacts' :
         /\ d.id = c.id
         /\ d.email = c.email
         /\ d.phoneNumber = c.phoneNumber
         /\ d.createdAt = c.createdAt
         /\ d.deletedAt = c.deletedAt
         /\ c.linkPrecedence = "secondary" => d.linkPrecedence = "secondary"]_vars

\* a contact demoted by an earlier call (a secondary with only one of email
\* and phone number was inserted as a primary) is in the cluster of a later
\* call that merged nothing and inserted a row, and it is still a secondary
C17_Witness ==
  /\ last.status = "ok"
  /\ last.losers = {}
  /\ last.written = 1
  /\ \E c \in contacts :
       /\ c.id \in last.cluster
       /\ c.linkPrecedence = "secondary"
       /\ c.email = Null \/ c.phoneNumber = Null
       /\ c.updatedAt > c.createdAt

\* the id of the primary that governs contact c
Governor(c) == IF IsPrimary(c) THEN c.id ELSE c.linkedId

\* C18: in every store reachable by serial calls without soft deletes, two
\* live contacts that share an email or share a phone number have the same
\* governing primary, and no two live contacts carry the same
\* (email, phoneNumber) pair.
C18_SharedValueSharedPrimary ==
  \A c, d \in Live(contacts) :
    c.id # d.id =>
      /\ ~Disjoint(c, d) => Governor(c) = Governor(d)
      /\ ~(c.email = d.email /\ c.phoneNumber = d.phoneNumber)

\* a merge of a three-contact store has just demoted a primary, and another
\* contact that shares a value with it is governed by the same primary, the
\* one the call returned
C18_Witness ==
  /\ last.status = "ok"
  /\ last.losers # {}
  /\ Cardinality(Live(contacts)) = 3
  /\ \E c, d \in Live(contacts) :
       /\ c.id # d.id
       /\ d.id \in last.losers
       /\ ~Disjoint(c, d)
       /\ Governor(c) = Governor(d)
       /\ Governor(d) = last.response.primaryContatctId

\* transaction t has committed and returned after demoting a primary
Merged(t) == txs[t].pc = "done" /\ txs[t].losers # <<>>

\* the live contacts of the clusters of the primaries ids
ClusterOf(store, ids) ==
  {c \in Live(store) : c.id \in ids \/ c.linkedId \in ids}

\* the contacts cs are one cluster: one primary, the others its secondaries
OneCluster(cs) ==
  \E p \in cs :
    /\ IsPrimary(p) /\ p.linkedId = NoLink
    /\ \A c \in cs \ {p} : c.linkPrecedence = "secondary" /\ c.linkedId = p.id

\* C11: when two overlapping transactions have both merged the same two
\* clusters and both have committed, the contacts of those clusters form one
\* cluster with exactly one primary, whatever the interleaving of their
\* statements.
C11_ConcurrentMergeOnePrimary ==
  (Merged(1) /\ Merged(2) /\ txs[1].touched = txs[2].touched)
    => OneCluster(ClusterOf(contacts, txs[1].touched))

\* What the code does keep of it (it holds): the same, when no two of the
\* primaries the transactions found have the same createdAt.
C11_ConcurrentMergeOnePrimaryUnlessTied ==
  ( /\ Merged(1) /\ Merged(2) /\ txs[1].touched = txs[2].touched
    /\ \A c, d \in contacts :
         (c.id \in txs[1].touched /\ d.id \in txs[1].touched /\ c.id # d.id)
           => c.createdAt # d.createdAt )
    => OneCluster(ClusterOf(contacts, txs[1].touched))

\* every live contact of the store is a primary without link or a secondary
\* of a live primary
LinkHierarchy(store) ==
  \A c \in Live(store) :
    \/ IsPrimary(c) /\ c.linkedId = NoLink
    \/ /\ c.linkPrecedence = "secondary"
       /\ \E p \in Live(store) :
            p.id = c.linkedId /\ IsPrimary(p) /\ p.linkedId = NoLink

\* the clusters the two transactions worked on overlap, and are not the
\* same, and one of the transactions at least has demoted a primary
PartialOverlap ==
  /\ \A t \in Txs : txs[t].pc = "done"
  /\ \E t \in Txs : txs[t].losers # <<>>
  /\ txs[1].touched \cap txs[2].touched # {}
  /\ txs[1].touched # txs[2].touched

\* C19: when two overlapping transactions whose merges share one cluster but
\* not both (A-B against B-C, or an insert under B against the demotion of
\* B) have both committed, every secondary's linkedId is the id of a live
\* primary: no chain of two hops and no cycle.
C19_PartialOverlapKeepsHierarchy ==
  PartialOverlap => LinkHierarchy(contacts)

\* The same, asked only when no transaction found two primaries of equal
\* createdAt (it fails as well: the chain does not come from a tie).
C19_PartialOverlapKeepsHierarchyUnlessTied ==
  ( /\ PartialOverlap
    /\ \A t \in Txs : \A c, d \in contacts :
         (c.id \in txs[t].touched /\ d.id \in txs[t].touched /\ c.id # d.id)
           => c.createdAt # d.createdAt )
    => LinkHierarchy(contacts)

\* C20: when two overlapping transactions carry the same email and the same
\* phone number, each carried by no live contact when either of them
\* started, and both have committed, no two live primaries share that email
\* or that phone number.
C20_OnePrimaryForNewIdentity ==
  ( /\ \A t \in Txs : txs[t].pc = "done" /\ txs[t].fresh
    /\ txs[1].email # Null /\ txs[1].phoneNumber # Null
    /\ txs[1].email = txs[2].email
    /\ txs[1].phoneNumber = txs[2].phoneNumber )
    => \A c, d \in Live(contacts) :
         ( /\ c.id # d.id /\ IsPrimary(c) /\ IsPrimary(d)
           /\ c \in MatchedBy(contacts, txs[1].email, txs[1].phoneNumber)
           /\ d \in MatchedBy(contacts, txs[1].email, txs[1].phoneNumber) )
           => Disjoint(c, d)

\* An UPDATE does wait for the other transaction's row lock in some runs,
\* and the two transactions never wait for each other at once (it holds):
\* the statements cannot deadlock, so no deadlock abort is in NextConc.
LockWaitReached == \E t \in Txs : txs[t].pending # <<>>
NeverBothWaiting == ~(\A t \in Txs : txs[t].pending # <<>>)

====
